---- MODULE Spec2Model ----
(***************************************************************************)
(* Model of the documentation-link tools of wallstop/DxMessaging:          *)
(*   .github/scripts/check_markdown_links.py        (the Link Scanner)     *)
(*   .github/scripts/check_markdown_url_encoding.py (the Encoding Scanner) *)
(*   docs/hooks.py                                  (the Link Rewriter)    *)
(*                                                                         *)
(* A Python str is a sequence of one-character strings, so                 *)
(* "[a](b)" is << "[", "a", "]", "(", "b", ")" >>.  Positions are 1-based  *)
(* offsets into such a sequence.  The regular expressions of the scripts   *)
(* are translated into the matchers they denote.                           *)
(***************************************************************************)
EXTENDS Integers, Sequences, FiniteSets, TLC

VARIABLES
    pc,                 \* position of the running script
    lines,              \* the lines of the document being scanned
    idx,                \* 1-based number of the next line of the for loop
    in_code_block,      \* check_file_content: fence tracker state
    code_fence_pattern, \* check_file_content: marker that opened the block, or None
    file_issues,        \* check_file_content: its issues list
    kind,               \* history: the fence tracker's verdict on each line scanned
    visited,            \* main: number of directory entries os.walk has yielded
    issues,             \* main / scan_file: the run's issue counter
    out,                \* stdout: one record per line printed
    err,                \* stderr: the summary, once printed
    rc,                 \* the return value of main or scan_file, None while running
    prev_unclosed,      \* history: the previous document ended inside a block
    total,              \* main of the Encoding Scanner: its issues counter
    log,                \* history: what became of each entry os.walk yielded
    markdown,           \* on_page_markdown: the page text it was given
    content,            \* on_page_markdown: the text being worked on
    fenced_blocks,      \* on_page_markdown: the fenced blocks masked so far
    inline_codes        \* on_page_markdown: the inline code spans masked so far

\* The variables of the Link Rewriter.
rewriter == << markdown, content, fenced_blocks, inline_codes >>

vars == << pc, lines, idx, in_code_block, code_fence_pattern, file_issues,
           kind, visited, issues, out, err, rc, prev_unclosed, total, log,
           rewriter >>

-----------------------------------------------------------------------------
(* Python values *)

\* Python's None, as a value no str (sequence of characters) is equal to.
None == << "None" >>

Min(S) == CHOOSE x \in S : \A y \in S : x <= y

Max(S) == CHOOSE x \in S : \A y \in S : x >= y

\* The backtick character (code 96), which a TLA+ string cannot hold.
BT == "<backtick>"

\* The printable ASCII characters, code 32 (space) to code 126 (~).
Ascii ==
    << " ", "!", "\"", "#", "$", "%", "&", "'", "(", ")", "*", "+", ",", "-",
       ".", "/", "0", "1", "2", "3", "4", "5", "6", "7", "8", "9", ":", ";",
       "<", "=", ">", "?", "@", "A", "B", "C", "D", "E", "F", "G", "H", "I",
       "J", "K", "L", "M", "N", "O", "P", "Q", "R", "S", "T", "U", "V", "W",
       "X", "Y", "Z", "[", "\\", "]", "^", "_", BT, "a", "b", "c", "d", "e",
       "f", "g", "h", "i", "j", "k", "l", "m", "n", "o", "p", "q", "r", "s",
       "t", "u", "v", "w", "x", "y", "z", "{", "|", "}", "~" >>

\* ord(c) of a printable ASCII character; tab and newline by their codes.
Ord(c) ==
    IF c = "\t" THEN 9
    ELSE IF c = "\n" THEN 10
    ELSE IF c = "\r" THEN 13
    ELSE IF \E i \in 1..Len(Ascii) : Ascii[i] = c
         THEN 31 + (CHOOSE i \in 1..Len(Ascii) : Ascii[i] = c)
         ELSE 65533

\* chr(code); a byte that is no printable ASCII character decodes to a
\* character that is none of those the scripts test for.
Chr(code) ==
    IF code = 9 THEN "\t"
    ELSE IF code = 10 THEN "\n"
    ELSE IF code = 13 THEN "\r"
    ELSE IF code >= 32 /\ code <= 126 THEN Ascii[code - 31]
    ELSE "<other>"

\* str.isspace() / the regex class \s, on the characters of the model.
IsSpace(c) == c \in {" ", "\t", "\n", "\r"}

\* s[i:j] of Python with 1-based inclusive bounds lo..hi.
Slice(s, lo, hi) == IF lo > hi THEN << >> ELSE SubSeq(s, lo, hi)

\* str.startswith
StartsWith(s, prefix) ==
    /\ Len(s) >= Len(prefix)
    /\ Slice(s, 1, Len(prefix)) = prefix

\* str.endswith
EndsWith(s, suffix) ==
    /\ Len(s) >= Len(suffix)
    /\ Slice(s, Len(s) - Len(suffix) + 1, Len(s)) = suffix

\* str.lstrip()
LStrip(s) ==
    LET keep == {i \in 1..Len(s) : ~IsSpace(s[i])}
    IN  IF keep = {} THEN << >> ELSE Slice(s, Min(keep), Len(s))

\* str.strip()
Strip(s) ==
    LET keep == {i \in 1..Len(s) : ~IsSpace(s[i])}
    IN  IF keep = {} THEN << >> ELSE Slice(s, Min(keep), Max(keep))

\* str.lower(), on ASCII
LowerChar(c) ==
    LET o == Ord(c) IN IF o >= 65 /\ o <= 90 THEN Chr(o + 32) ELSE c

Lower(s) == [i \in 1..Len(s) |-> LowerChar(s[i])]

\* c in s
Contains(s, c) == \E i \in 1..Len(s) : s[i] = c

\* n backticks: the fence of check_code_fence
Backticks(n) == [i \in 1..n |-> BT]

\* The character at position i, or "" beyond the ends of s.
CharAt(s, i) == IF i >= 1 /\ i <= Len(s) THEN s[i] ELSE ""

\* The least position >= from holding a character of set S, or 0.
FirstIn(s, from, S) ==
    LET hits == {i \in from..Len(s) : s[i] \in S}
    IN  IF hits = {} THEN 0 ELSE Min(hits)

\* The last position of the maximal run, starting at from, of characters
\* outside S (from - 1 when the run is empty): a greedy [^S]* .
RunEndNotIn(s, from, S) ==
    LET stop == FirstIn(s, from, S)
    IN  IF stop = 0 THEN Len(s) ELSE stop - 1

\* The same for a run of characters of S: a greedy [S]* .
RunEndIn(s, from, S) ==
    LET stop == {i \in from..Len(s) : s[i] \notin S}
    IN  IF stop = {} THEN Len(s) ELSE Min(stop) - 1

Whitespace == {" ", "\t", "\n", "\r"}

-----------------------------------------------------------------------------
(* The link pattern shared by both scripts:                                *)
(*   \[(?P<text>[^\]]+)\]\((?P<target>[^)\s]+)(?:\s+\"[^\"]*\")?\)         *)
(* Every quantifier of it is followed by a character its class excludes,   *)
(* so backtracking never finds a match the greedy reading misses.          *)

NoMatch == [start |-> 0, end |-> 0, text |-> << >>, target |-> << >>]

\* (?:\s+\"[^\"]*\")?\) tried at position from when s[from] is not ")":
\* the position of the closing parenthesis, or 0.
TitleEnd(s, from) ==
    LET wend == RunEndIn(s, from, Whitespace)
    IN  IF wend < from \/ CharAt(s, wend + 1) # "\""
        THEN 0
        ELSE LET q == FirstIn(s, wend + 2, {"\""})
             IN  IF q = 0 \/ CharAt(s, q + 1) # ")" THEN 0 ELSE q + 1

\* The pattern from its "[" at position i: the match, or NoMatch.
LinkBodyAt(s, i) ==
    IF CharAt(s, i) # "["
    THEN NoMatch
    ELSE LET close == FirstIn(s, i + 1, {"]"})
         IN  IF close = 0 \/ close = i + 1 \/ CharAt(s, close + 1) # "("
             THEN NoMatch
             ELSE LET tend == RunEndNotIn(s, close + 2, {")"} \cup Whitespace)
                      fin  == IF CharAt(s, tend + 1) = ")"
                              THEN tend + 1
                              ELSE TitleEnd(s, tend + 1)
                  IN  IF tend < close + 2 \/ fin = 0
                      THEN NoMatch
                      ELSE [start  |-> i,
                            end    |-> fin,
                            text   |-> Slice(s, i + 1, close - 1),
                            target |-> Slice(s, close + 2, tend)]

\* LINK_RE at position i: the negative lookbehind (?<!\!) and the pattern.
LINK_RE(s, i) ==
    IF i > 1 /\ s[i - 1] = "!" THEN NoMatch ELSE LinkBodyAt(s, i)

\* LINK_RE.finditer(s), from position from on: the matches, left to right,
\* each search resuming after the previous match.
RECURSIVE LinkFindIter(_, _)
LinkFindIter(s, from) ==
    LET starts == {i \in from..Len(s) : LINK_RE(s, i).start # 0}
    IN  IF starts = {}
        THEN << >>
        ELSE LET m == LINK_RE(s, Min(starts))
             IN  << m >> \o LinkFindIter(s, m.end + 1)

-----------------------------------------------------------------------------
(* check_markdown_links.py *)

\* The value of a hexadecimal digit, or -1.
HexVal(c) ==
    LET o == Ord(c)
    IN  IF o >= 48 /\ o <= 57 THEN o - 48
        ELSE IF o >= 97 /\ o <= 102 THEN o - 87
        ELSE IF o >= 65 /\ o <= 70 THEN o - 55
        ELSE -1

\* urllib.parse.unquote: every "%" followed by two hexadecimal digits is
\* replaced by the character of that code, any other "%" is kept.
RECURSIVE Unquote(_)
Unquote(s) ==
    IF s = << >> THEN << >>
    ELSE IF /\ s[1] = "%"
            /\ Len(s) >= 3
            /\ HexVal(s[2]) >= 0
            /\ HexVal(s[3]) >= 0
         THEN << Chr(16 * HexVal(s[2]) + HexVal(s[3])) >> \o Unquote(Slice(s, 4, Len(s)))
         ELSE << s[1] >> \o Unquote(Slice(s, 2, Len(s)))

\* re.sub(r"[?#].*$", "", target), followed by unquote: the target without
\* its query and fragment, decoded.  (A target holds no newline, so .*$
\* runs to its end.)
TargetCore(target) ==
    LET cut == FirstIn(target, 1, {"?", "#"})
    IN  Unquote(IF cut = 0 THEN target ELSE Slice(target, 1, cut - 1))

\* The prefixes of ^(#|https?://|mailto:|tel:|data:)
SkippedPrefixes ==
    { << "#" >>,
      << "h", "t", "t", "p", ":", "/", "/" >>,
      << "h", "t", "t", "p", "s", ":", "/", "/" >>,
      << "m", "a", "i", "l", "t", "o", ":" >>,
      << "t", "e", "l", ":" >>,
      << "d", "a", "t", "a", ":" >> }

DotMd == << ".", "m", "d" >>

\* A plausible slip: the scheme test left out.
should_check_target_NoSchemeTest(target) ==
    EndsWith(Lower(TargetCore(target)), DotMd)

\* A plausible slip: the extension compared as written.
should_check_target_CaseSensitive(target) ==
    IF \E p \in SkippedPrefixes : StartsWith(target, p)
    THEN FALSE
    ELSE EndsWith(TargetCore(target), DotMd)

should_check_target(target) ==
    IF \E p \in SkippedPrefixes : StartsWith(target, p)
    THEN FALSE
    ELSE EndsWith(Lower(TargetCore(target)), DotMd)

\* os.path.basename (posix): what follows the last "/".
Basename(path) ==
    LET slashes == {i \in 1..Len(path) : path[i] = "/"}
    IN  IF slashes = {} THEN path ELSE Slice(path, Max(slashes) + 1, Len(path))

\* A plausible slip: a path-like text counts only when it names the target.
is_link_text_problematic_PathNeedsTarget(text, target) ==
    LET file_name == Basename(TargetCore(target))
        is_exact_file_name == Lower(text) = Lower(file_name)
        looks_like_path ==
            /\ Contains(text, "/") \/ Contains(text, "\\")
            /\ ~ \E i \in 1..Len(text) : IsSpace(text[i])
            /\ EndsWith(Lower(text), Lower(file_name))
        looks_like_markdown == EndsWith(Lower(Strip(text)), DotMd)
    IN  is_exact_file_name \/ looks_like_path \/ looks_like_markdown

is_link_text_problematic(text, target) ==
    LET file_name == Basename(TargetCore(target))
        is_exact_file_name == Lower(text) = Lower(file_name)
        looks_like_path ==
            /\ Contains(text, "/") \/ Contains(text, "\\")
            /\ ~ \E i \in 1..Len(text) : IsSpace(text[i])
        looks_like_markdown == EndsWith(Lower(Strip(text)), DotMd)
    IN  is_exact_file_name \/ looks_like_path \/ looks_like_markdown

\* re.sub(r"BT[^BT]+BT", "", line), BT the backtick: the spans are found
\* left to right, each search resuming after the previous span.
RECURSIVE RemoveInlineFrom(_, _)
RemoveInlineFrom(line, from) ==
    LET opens == {i \in from..Len(line) :
                    /\ line[i] = BT
                    /\ FirstIn(line, i + 1, {BT}) > i + 1}
    IN  IF opens = {}
        THEN Slice(line, from, Len(line))
        ELSE LET i == Min(opens)
                 j == FirstIn(line, i + 1, {BT})
             IN  Slice(line, from, i - 1) \o RemoveInlineFrom(line, j + 1)

remove_inline_code(line) == RemoveInlineFrom(line, 1)

\* Number of backticks at the start of the line (the counting loop).
BacktickCount(stripped_line) == RunEndIn(stripped_line, 1, {BT})

\* A plausible slip: the closing fence tested by its prefix only.
check_code_fence_PrefixClose(stripped_line, in_block, fence_pattern) ==
    IF ~StartsWith(stripped_line, Backticks(3))
    THEN << in_block, fence_pattern, FALSE >>
    ELSE IF ~in_block
         THEN << TRUE, Backticks(BacktickCount(stripped_line)), TRUE >>
         ELSE IF StartsWith(stripped_line, fence_pattern)
              THEN << FALSE, None, TRUE >>
              ELSE << in_block, fence_pattern, FALSE >>

\* A plausible slip: every line that starts with three backticks toggles
\* the block.
check_code_fence_Toggle(stripped_line, in_block, fence_pattern) ==
    IF ~StartsWith(stripped_line, Backticks(3))
    THEN << in_block, fence_pattern, FALSE >>
    ELSE IF ~in_block
         THEN << TRUE, Backticks(BacktickCount(stripped_line)), TRUE >>
         ELSE << FALSE, None, TRUE >>

\* A plausible slip: inside a block, a bare fence of any length closes it.
check_code_fence_AnyFenceCloses(stripped_line, in_block, fence_pattern) ==
    IF ~StartsWith(stripped_line, Backticks(3))
    THEN << in_block, fence_pattern, FALSE >>
    ELSE IF ~in_block
         THEN << TRUE, Backticks(BacktickCount(stripped_line)), TRUE >>
         ELSE IF Strip(stripped_line) = Backticks(BacktickCount(stripped_line))
              THEN << FALSE, None, TRUE >>
              ELSE << in_block, fence_pattern, FALSE >>

\* A plausible slip: the closing fence leaves the pattern in place.
check_code_fence_KeepsPattern(stripped_line, in_block, fence_pattern) ==
    IF ~StartsWith(stripped_line, Backticks(3))
    THEN << in_block, fence_pattern, FALSE >>
    ELSE IF ~in_block
         THEN << TRUE, Backticks(BacktickCount(stripped_line)), TRUE >>
         ELSE IF /\ StartsWith(stripped_line, fence_pattern)
                 /\ Strip(stripped_line) = fence_pattern
              THEN << FALSE, fence_pattern, TRUE >>
              ELSE << in_block, fence_pattern, FALSE >>

\* check_code_fence: << new_in_code_block, new_code_fence_pattern, is_fence_line >>
check_code_fence(stripped_line, in_block, fence_pattern) ==
    IF ~StartsWith(stripped_line, Backticks(3))
    THEN << in_block, fence_pattern, FALSE >>
    ELSE IF ~in_block
         THEN << TRUE, Backticks(BacktickCount(stripped_line)), TRUE >>
         ELSE IF /\ StartsWith(stripped_line, fence_pattern)
                 /\ Strip(stripped_line) = fence_pattern
              THEN << FALSE, None, TRUE >>
              ELSE << in_block, fence_pattern, FALSE >>

\* The loop of check_line_for_issues over the matches ms: one entry per
\* flagged match, in the order of ms.  col is the offset of the match in
\* line_to_check; the script's tuple is (text, target), col is kept beside
\* it to state where on the line an issue comes from.
RECURSIVE FlaggedOf(_)
FlaggedOf(ms) ==
    IF ms = << >> THEN << >>
    ELSE LET m == ms[1]
             text == Strip(m.text)
             target_raw == Strip(m.target)
             rest == FlaggedOf(Tail(ms))
         IN  IF ~should_check_target(target_raw)
             THEN rest
             ELSE IF is_link_text_problematic(text, target_raw)
                  THEN << [text |-> text, target |-> target_raw, col |-> m.start] >> \o rest
                  ELSE rest

\* A plausible slip: lines inside a code block are checked like prose.
check_line_for_issues_IgnoreBlock(line, in_block) ==
    FlaggedOf(LinkFindIter(remove_inline_code(line), 1))

check_line_for_issues(line, in_block) ==
    IF in_block
    THEN << >>
    ELSE FlaggedOf(LinkFindIter(remove_inline_code(line), 1))

-----------------------------------------------------------------------------
(* check_markdown_url_encoding.py *)

ExternalPrefixes ==
    { << "h", "t", "t", "p", ":", "/", "/" >>,
      << "h", "t", "t", "p", "s", ":", "/", "/" >>,
      << "m", "a", "i", "l", "t", "o", ":" >>,
      << "t", "e", "l", ":" >>,
      << "d", "a", "t", "a", ":" >> }

\* A plausible slip: only the web schemes count as external.
is_external_WebOnly(target) ==
    \/ StartsWith(target, << "h", "t", "t", "p", ":", "/", "/" >>)
    \/ StartsWith(target, << "h", "t", "t", "p", "s", ":", "/", "/" >>)

is_external(target) == \E p \in ExternalPrefixes : StartsWith(target, p)

has_unencoded_chars(target) == Contains(target, " ") \/ Contains(target, "+")

\* INLINE_LINK_RE at position i: an optional "!" and the link pattern.
INLINE_LINK_RE(s, i) ==
    IF CharAt(s, i) = "!" /\ LinkBodyAt(s, i + 1).start # 0
    THEN [LinkBodyAt(s, i + 1) EXCEPT !.start = i]
    ELSE LinkBodyAt(s, i)

\* INLINE_LINK_RE.finditer(s), from position from on.
RECURSIVE InlineFindIter(_, _)
InlineFindIter(s, from) ==
    LET starts == {i \in from..Len(s) : INLINE_LINK_RE(s, i).start # 0}
    IN  IF starts = {}
        THEN << >>
        ELSE LET m == INLINE_LINK_RE(s, Min(starts))
             IN  << m >> \o InlineFindIter(s, m.end + 1)

\* REF_DEF_RE.match(line):
\*   ^\s*\[[^\]]+\]:\s*(?P<target>\S+)(?:\s+\"[^\"]*\")?\s*$
\* The match with its target, or NoMatch.
REF_DEF_RE(s) ==
    LET open  == RunEndIn(s, 1, Whitespace) + 1
        close == FirstIn(s, open + 1, {"]"})
        tfrom == RunEndIn(s, close + 2, Whitespace) + 1
        tend  == RunEndNotIn(s, tfrom, Whitespace)
        wend  == RunEndIn(s, tend + 1, Whitespace)
        q     == FirstIn(s, wend + 2, {"\""})
        bare  == wend = Len(s)
        title == /\ wend > tend
                 /\ CharAt(s, wend + 1) = "\""
                 /\ q # 0
                 /\ RunEndIn(s, q + 1, Whitespace) = Len(s)
    IN  IF /\ CharAt(s, open) = "["
           /\ close # 0
           /\ close > open + 1
           /\ CharAt(s, close + 1) = ":"
           /\ tend >= tfrom
           /\ bare \/ title
        THEN [start |-> 1, end |-> Len(s), text |-> << >>,
              target |-> Slice(s, tfrom, tend)]
        ELSE NoMatch

\* The inline-link loop of scan_file over the matches ms: the targets
\* reported, in the order of ms.
RECURSIVE EncFlaggedOf(_)
EncFlaggedOf(ms) ==
    IF ms = << >> THEN << >>
    ELSE LET target == Strip(ms[1].target)
             rest == EncFlaggedOf(Tail(ms))
         IN  IF is_external(target)
             THEN rest
             ELSE IF has_unencoded_chars(target)
                  THEN << [shape |-> "link", target |-> target] >> \o rest
                  ELSE rest

\* The body of scan_file's loop for one line: what it reports, in order.
EncLineIssues(line) ==
    LET m == REF_DEF_RE(line)
        target == Strip(m.target)
    IN  EncFlaggedOf(InlineFindIter(line, 1))
        \o IF m.start # 0 /\ ~is_external(target) /\ has_unencoded_chars(target)
           THEN << [shape |-> "definition", target |-> target] >>
           ELSE << >>

-----------------------------------------------------------------------------
(* Inputs.  The documents scanned are sequences of the lines below, as     *)
(* readlines() returns them, each ending in a newline.  In the comments    *)
(* BT stands for one backtick.                                             *)

\* BTBTBTBTmd\n
\*   four backticks and an info string
F_open4 ==
    << BT, BT, BT, BT, "m", "d", "\n" >>

\* BTBTBT\n
\*   three backticks
F_three ==
    << BT, BT, BT, "\n" >>

\*   BTBTBTBT \n
\*   four backticks, indented, a blank after them
F_four ==
    << " ", " ", BT, BT, BT, BT, " ", "\n" >>

\* [a.md](a.md)\n
\*   a link whose text is the file name
F_link ==
    << "[", "a", ".", "m", "d", "]", "(", "a", ".", "m", "d", ")", "\n" >>

FenceLines == {F_open4, F_three, F_four, F_link}

\*  BTBTBT[a.md](a.md)\n
\*   three backticks, indented, followed by a link whose text is the file name
L_three_info ==
    << " ", BT, BT, BT, "[", "a", ".", "m", "d", "]", "(", "a", ".", "m", "d", ")", "\n" >>

\* [a.md](a.md) [d/x](b.md) [a.md](a.md)\n
\*   the same flagged link twice, a path-like text between them
L_dup ==
    << "[", "a", ".", "m", "d", "]", "(", "a", ".", "m", "d", ")", " ", "[",
       "d", "/", "x", "]", "(", "b", ".", "m", "d", ")", " ", "[", "a", ".",
       "m", "d", "]", "(", "a", ".", "m", "d", ")", "\n" >>

\* [a.md](http://h/a.md) [d/x](https://h/a.md)\n
\*   flaggable texts on web targets
L_web ==
    << "[", "a", ".", "m", "d", "]", "(", "h", "t", "t", "p", ":", "/", "/",
       "h", "/", "a", ".", "m", "d", ")", " ", "[", "d", "/", "x", "]", "(",
       "h", "t", "t", "p", "s", ":", "/", "/", "h", "/", "a", ".", "m", "d",
       ")", "\n" >>

\* [d/x](#a.md) [a.md](mailto:a.md) [a.md](tel:a.md) [d\x](data:a.md)\n
\*   flaggable texts on anchor, mailto, tel and data targets
L_schemes ==
    << "[", "d", "/", "x", "]", "(", "#", "a", ".", "m", "d", ")", " ", "[",
       "a", ".", "m", "d", "]", "(", "m", "a", "i", "l", "t", "o", ":", "a",
       ".", "m", "d", ")", " ", "[", "a", ".", "m", "d", "]", "(", "t", "e",
       "l", ":", "a", ".", "m", "d", ")", " ", "[", "d", "\\", "x", "]", "(",
       "d", "a", "t", "a", ":", "a", ".", "m", "d", ")", "\n" >>

\* [d/x](b.png)\n
\*   a path-like text whose target is no markdown file
L_png ==
    << "[", "d", "/", "x", "]", "(", "b", ".", "p", "n", "g", ")", "\n" >>

\* [BTd/xBT](%61.md?q#f) BT[a.md](a.md)BT\n
\*   a path-like text written as a code span, and a link inside a code span
L_span ==
    << "[", BT, "d", "/", "x", BT, "]", "(", "%", "6", "1", ".", "m", "d",
       "?", "q", "#", "f", ")", " ", BT, "[", "a", ".", "m", "d", "]", "(",
       "a", ".", "m", "d", ")", BT, "\n" >>

\* [the doc](a.md) ![a.md](a.md) [ d/x ](A.MD "t")\n
\*   a readable text, an image, and a padded path-like text
L_fine ==
    << "[", "t", "h", "e", " ", "d", "o", "c", "]", "(", "a", ".", "m", "d",
       ")", " ", "!", "[", "a", ".", "m", "d", "]", "(", "a", ".", "m", "d",
       ")", " ", "[", " ", "d", "/", "x", " ", "]", "(", "A", ".", "M", "D",
       " ", "\"", "t", "\"", ")", "\n" >>

Lines == {F_three, F_four, L_three_info, F_link, L_dup, L_web, L_schemes,
          L_png, L_span, L_fine}

\* [doc](My File.md)\n
\*   a link written with a blank in its target
E_space ==
    << "[", "d", "o", "c", "]", "(", "M", "y", " ", "F", "i", "l", "e", ".",
       "m", "d", ")", "\n" >>

\* [doc](My%20File.md)\n
\*   the same target, percent-encoded
E_encoded ==
    << "[", "d", "o", "c", "]", "(", "M", "y", "%", "2", "0", "F", "i", "l",
       "e", ".", "m", "d", ")", "\n" >>

\* ![i](a+b.png) [x](c+d.md "t")\n
\*   an image and a link with a plus sign in the target
E_plus ==
    << "!", "[", "i", "]", "(", "a", "+", "b", ".", "p", "n", "g", ")", " ",
       "[", "x", "]", "(", "c", "+", "d", ".", "m", "d", " ", "\"", "t",
       "\"", ")", "\n" >>

\* [x](#c++)\n
\*   an anchor with plus signs
E_anchor ==
    << "[", "x", "]", "(", "#", "c", "+", "+", ")", "\n" >>

\* [x](http://h/a+b) [y](https://h/a+b)\n
\*   web targets with a plus sign
E_web ==
    << "[", "x", "]", "(", "h", "t", "t", "p", ":", "/", "/", "h", "/", "a",
       "+", "b", ")", " ", "[", "y", "]", "(", "h", "t", "t", "p", "s", ":",
       "/", "/", "h", "/", "a", "+", "b", ")", "\n" >>

\* [x](mailto:a+b) [y](tel:+1) [z](data:a+b)\n
\*   mailto, tel and data targets with a plus sign
E_schemes ==
    << "[", "x", "]", "(", "m", "a", "i", "l", "t", "o", ":", "a", "+", "b",
       ")", " ", "[", "y", "]", "(", "t", "e", "l", ":", "+", "1", ")", " ",
       "[", "z", "]", "(", "d", "a", "t", "a", ":", "a", "+", "b", ")",
       "\n" >>

\* [id]: a+b.md "t"\n
\*   a reference definition with a plus sign in the target
E_def ==
    << "[", "i", "d", "]", ":", " ", "a", "+", "b", ".", "m", "d", " ", "\"",
       "t", "\"", "\n" >>

\*  [id]: https://h/a+b\n
\*   a reference definition of a web target
E_def_web ==
    << " ", "[", "i", "d", "]", ":", " ", "h", "t", "t", "p", "s", ":", "/",
       "/", "h", "/", "a", "+", "b", "\n" >>

\* [id]: My File.md\n
\*   a reference definition written with a blank in its target
E_def_space ==
    << "[", "i", "d", "]", ":", " ", "M", "y", " ", "F", "i", "l", "e", ".",
       "m", "d", "\n" >>

EncLines == {E_space, E_encoded, E_plus, E_anchor, E_web, E_schemes, E_def,
             E_def_web, E_def_space}

\* [A.MD](d/a%2Emd?q=1#f) [d/x](a.txt?f=b.md) [d\x](B.Md)\n
\*   a file-name text on an encoded target with query and fragment, a
\*   path-like text on a target whose query alone ends with .md, and a
\*   backslash text on a target with a mixed-case extension
L_query ==
    << "[", "A", ".", "M", "D", "]", "(", "d", "/", "a", "%", "2", "E", "m",
       "d", "?", "q", "=", "1", "#", "f", ")", " ", "[", "d", "/", "x", "]",
       "(", "a", ".", "t", "x", "t", "?", "f", "=", "b", ".", "m", "d", ")",
       " ", "[", "d", "\\", "x", "]", "(", "B", ".", "M", "d", ")", "\n" >>

LinkLines == Lines \cup {L_query}

\* Longest document of SpecLinks.
MaxLinkLines == 2

\* Longest document of Spec, of SpecFence and of SpecEnc; most directory
\* entries os.walk yields in SpecMain.
MaxLines == 3

MaxFenceLines == 6

MaxEncLines == 2

MaxFiles == 2

\* The sequences over S of length at most n.
SeqsUpTo(S, n) == UNION {[1..k -> S] : k \in 0..n}

\* The documents under the directory main walks: one that ends inside an
\* unclosed block, ones with a flagged link before, inside and after a
\* block, and an empty one.
MainDocs ==
    { << >>,
      << F_link >>,
      << F_three, F_link >>,
      << F_link, F_open4, F_three >>,
      << F_three, F_link, F_three, F_link >> }

\* File names os.walk yields.
FileNames ==
    { << "a", ".", "m", "d" >>, << "B", ".", "M", "D" >>, << "c", ".", "p", "y" >> }

-----------------------------------------------------------------------------
(* check_file_content *)

\* A plausible slip: the locals of the previous call are still in use.
NewScan_Carried(prev_in_block, prev_pattern) ==
    [in_code_block |-> prev_in_block, code_fence_pattern |-> prev_pattern]

\* The locals check_file_content starts with, whatever a previous call
\* left behind.
NewScan(prev_in_block, prev_pattern) ==
    [in_code_block |-> FALSE, code_fence_pattern |-> None]

\* The issues of one line, numbered: the inner for loop.
Numbered(n, line_issues) ==
    [i \in 1..Len(line_issues) |->
        [line   |-> n,
         text   |-> line_issues[i].text,
         target |-> line_issues[i].target,
         col    |-> line_issues[i].col]]

\* The tracker's verdict on a line, for the history variable kind.
Verdict(was_in_block, now_in_block, is_fence) ==
    IF is_fence
    THEN IF now_in_block THEN "open" ELSE "close"
    ELSE IF was_in_block THEN "inside" ELSE "prose"

\* A plausible slip: the matches of a line are taken last to first.
ScanStep_Reversed(line, n, in_block, fence_pattern) ==
    LET r == check_code_fence(LStrip(line), in_block, fence_pattern)
        found == IF r[3] THEN << >>
                 ELSE Numbered(n, check_line_for_issues(line, r[1]))
    IN  [in_code_block      |-> r[1],
         code_fence_pattern |-> r[2],
         found              |-> [i \in 1..Len(found) |-> found[Len(found) + 1 - i]],
         verdict            |-> Verdict(in_block, r[1], r[3])]

\* One turn of the for loop of check_file_content on line number n.
ScanStep(line, n, in_block, fence_pattern) ==
    LET r == check_code_fence(LStrip(line), in_block, fence_pattern)
    IN  [in_code_block      |-> r[1],
         code_fence_pattern |-> r[2],
         found              |-> IF r[3] THEN << >>
                                ELSE Numbered(n, check_line_for_issues(line, r[1])),
         verdict            |-> Verdict(in_block, r[1], r[3])]

\* check_file_content(doc) as a function of doc alone: the loop run from
\* the locals of a fresh call, lines n..Len(doc) still to scan.
RECURSIVE ScanFrom(_, _, _, _)
ScanFrom(doc, n, in_block, fence_pattern) ==
    IF n > Len(doc) THEN << >>
    ELSE LET st == ScanStep(doc[n], n, in_block, fence_pattern)
         IN  st.found \o ScanFrom(doc, n + 1, st.in_code_block, st.code_fence_pattern)

CheckFileContent(doc) == ScanFrom(doc, 1, FALSE, None)

Scanning == pc \in {"check_file_content", "main:check_file_content"}

\* The for loop of check_file_content takes the next line.
ScanLine ==
    /\ Scanning
    /\ idx <= Len(lines)
    /\ LET st == ScanStep(lines[idx], idx, in_code_block, code_fence_pattern)
       IN  /\ in_code_block' = st.in_code_block
           /\ code_fence_pattern' = st.code_fence_pattern
           /\ file_issues' = file_issues \o st.found
           /\ kind' = Append(kind, st.verdict)
    /\ idx' = idx + 1
    /\ UNCHANGED << pc, lines, visited, issues, out, err, rc, prev_unclosed, total,
                    log, rewriter >>

\* The loop is over: check_file_content returns its list, to the caller
\* of the function or to main.
ScanReturn ==
    /\ Scanning
    /\ idx > Len(lines)
    /\ pc' = IF pc = "check_file_content" THEN "returned" ELSE "main:report"
    /\ UNCHANGED << lines, idx, in_code_block, code_fence_pattern, file_issues,
                    kind, visited, issues, out, err, rc, prev_unclosed, total,
                    log, rewriter >>

-----------------------------------------------------------------------------
(* main of check_markdown_links.py *)

\* filename.lower().endswith(".md")
IsMarkdownName(filename) == EndsWith(Lower(filename), DotMd)

\* os.walk yields a file that is no markdown file: continue.
MainSkipOther ==
    /\ pc = "main:walk"
    /\ visited < MaxFiles
    /\ \E filename \in FileNames : ~IsMarkdownName(filename)
    /\ visited' = visited + 1
    /\ log' = Append(log, [read |-> "other", doc |-> << >>])
    /\ UNCHANGED << pc, lines, idx, in_code_block, code_fence_pattern,
                    file_issues, kind, issues, out, err, rc, prev_unclosed, total,
                    rewriter >>

\* A plausible slip: after a failed read the loop goes on to the check,
\* with the lines the previous file left behind.
MainReadFails_ScansStaleLines ==
    /\ pc = "main:walk"
    /\ visited < MaxFiles
    /\ \E filename \in FileNames : IsMarkdownName(filename)
    /\ visited' = visited + 1
    /\ log' = Append(log, [read |-> "failed", doc |-> << >>])
    /\ in_code_block' = FALSE
    /\ code_fence_pattern' = None
    /\ idx' = 1
    /\ file_issues' = << >>
    /\ kind' = << >>
    /\ pc' = "main:check_file_content"
    /\ UNCHANGED << lines, issues, out, err, rc, prev_unclosed, total, rewriter >>

\* open() or readlines() raises: the file is skipped.
MainReadFails ==
    /\ pc = "main:walk"
    /\ visited < MaxFiles
    /\ \E filename \in FileNames : IsMarkdownName(filename)
    /\ visited' = visited + 1
    /\ log' = Append(log, [read |-> "failed", doc |-> << >>])
    /\ UNCHANGED << pc, lines, idx, in_code_block, code_fence_pattern,
                    file_issues, kind, issues, out, err, rc, prev_unclosed, total,
                    rewriter >>

\* A markdown file is read and check_file_content is called on its lines.
MainCheckFile ==
    /\ pc = "main:walk"
    /\ visited < MaxFiles
    /\ \E filename \in FileNames : IsMarkdownName(filename)
    /\ \E doc \in MainDocs : lines' = doc
    /\ visited' = visited + 1
    /\ log' = Append(log, [read |-> "ok", doc |-> lines'])
    /\ LET fresh == NewScan(in_code_block, code_fence_pattern)
       IN  /\ in_code_block' = fresh.in_code_block
           /\ code_fence_pattern' = fresh.code_fence_pattern
    /\ idx' = 1
    /\ file_issues' = << >>
    /\ kind' = << >>
    /\ prev_unclosed' = in_code_block
    /\ pc' = "main:check_file_content"
    /\ UNCHANGED << issues, out, err, rc, total, rewriter >>

\* The loop over file_issues: each is counted and printed.
MainReport ==
    /\ pc = "main:report"
    /\ issues' = issues + Len(file_issues)
    /\ out' = out \o [i \in 1..Len(file_issues) |->
                        [path   |-> visited,
                         line   |-> file_issues[i].line,
                         text   |-> file_issues[i].text,
                         target |-> file_issues[i].target]]
    /\ pc' = "main:walk"
    /\ UNCHANGED << lines, idx, in_code_block, code_fence_pattern, file_issues,
                    kind, visited, err, rc, prev_unclosed, total,
                    log, rewriter >>

\* os.walk is exhausted: the summary goes to stderr and main returns.
MainReturn ==
    /\ pc = "main:walk"
    /\ err' = IF issues # 0 THEN << [found |-> issues] >> ELSE << >>
    /\ rc' = IF issues # 0 THEN 1 ELSE 0
    /\ pc' = "exit"
    /\ UNCHANGED << lines, idx, in_code_block, code_fence_pattern, file_issues,
                    kind, visited, issues, out, prev_unclosed, total,
                    log, rewriter >>

-----------------------------------------------------------------------------
(* scan_file of check_markdown_url_encoding.py *)

\* The documents under the directory main of the Encoding Scanner walks:
\* an empty one, one with two issues on a line, one with an issue on its
\* second line and one without issues.
EncMainDocs ==
    { << >>,
      << E_plus >>,
      << E_web, E_def >>,
      << E_encoded >> }

\* scan_file runs on its own or called by main.
InScanFile(at) == pc \in {"scan_file" \o at, "enc_main:scan_file" \o at}

\* The file is read.
EncRead ==
    /\ InScanFile(":open")
    /\ \E doc \in (IF pc = "scan_file:open"
                    THEN SeqsUpTo(EncLines, MaxEncLines)
                    ELSE EncMainDocs) : lines' = doc
    /\ idx' = 1
    /\ log' = Append(log, [read |-> "ok", doc |-> lines'])
    /\ pc' = IF pc = "scan_file:open" THEN "scan_file" ELSE "enc_main:scan_file"
    /\ UNCHANGED << in_code_block, code_fence_pattern, file_issues, kind,
                    visited, issues, out, err, rc, prev_unclosed, total,
                    rewriter >>

\* open() or readlines() raises: scan_file returns 0.
EncReadFails ==
    /\ InScanFile(":open")
    /\ rc' = 0
    /\ log' = Append(log, [read |-> "failed", doc |-> << >>])
    /\ pc' = IF pc = "scan_file:open" THEN "returned" ELSE "enc_main:add"
    /\ UNCHANGED << lines, idx, in_code_block, code_fence_pattern, file_issues,
                    kind, visited, issues, out, err, prev_unclosed, total,
                    rewriter >>

\* The for loop of scan_file takes the next line: every inline link or
\* image, then the reference definition, is counted and printed.
EncScanLine ==
    /\ InScanFile("")
    /\ idx <= Len(lines)
    /\ LET found == EncLineIssues(lines[idx])
       IN  /\ issues' = issues + Len(found)
           /\ out' = out \o [i \in 1..Len(found) |->
                               [path   |-> visited,
                                line   |-> idx,
                                shape  |-> found[i].shape,
                                target |-> found[i].target]]
    /\ idx' = idx + 1
    /\ UNCHANGED << pc, lines, in_code_block, code_fence_pattern, file_issues,
                    kind, visited, err, rc, prev_unclosed, total,
                    log, rewriter >>

\* The loop is over: scan_file returns its count.
EncReturn ==
    /\ InScanFile("")
    /\ idx > Len(lines)
    /\ rc' = issues
    /\ pc' = IF pc = "scan_file" THEN "returned" ELSE "enc_main:add"
    /\ UNCHANGED << lines, idx, in_code_block, code_fence_pattern, file_issues,
                    kind, visited, issues, out, err, prev_unclosed, total,
                    log, rewriter >>

-----------------------------------------------------------------------------
(* main of check_markdown_url_encoding.py *)

\* scan_file as a function of the document read: what the loop prints and
\* counts, from line n on.
RECURSIVE ScanFileFrom(_, _)
ScanFileFrom(doc, n) ==
    IF n > Len(doc) THEN << >>
    ELSE LET found == EncLineIssues(doc[n])
         IN  [i \in 1..Len(found) |->
                 [line |-> n, shape |-> found[i].shape, target |-> found[i].target]]
                 \o ScanFileFrom(doc, n + 1)

\* os.walk yields a file that is no markdown file.
EncMainSkipOther ==
    /\ pc = "enc_main:walk"
    /\ visited < MaxFiles
    /\ \E filename \in FileNames : ~IsMarkdownName(filename)
    /\ visited' = visited + 1
    /\ log' = Append(log, [read |-> "other", doc |-> << >>])
    /\ UNCHANGED << pc, lines, idx, in_code_block, code_fence_pattern,
                    file_issues, kind, issues, out, err, rc, prev_unclosed,
                    total, rewriter >>

\* os.walk yields a markdown file: scan_file is called and starts its count.
EncMainScanFile ==
    /\ pc = "enc_main:walk"
    /\ visited < MaxFiles
    /\ \E filename \in FileNames : IsMarkdownName(filename)
    /\ visited' = visited + 1
    /\ issues' = 0
    /\ pc' = "enc_main:scan_file:open"
    /\ UNCHANGED << lines, idx, in_code_block, code_fence_pattern, file_issues,
                    kind, out, err, rc, prev_unclosed, total, log, rewriter >>

\* A plausible slip: the count of the file replaces the count of the run.
EncMainAdd_Overwrites ==
    /\ pc = "enc_main:add"
    /\ total' = rc
    /\ rc' = None
    /\ pc' = "enc_main:walk"
    /\ UNCHANGED << lines, idx, in_code_block, code_fence_pattern, file_issues,
                    kind, visited, issues, out, err, prev_unclosed, log,
                    rewriter >>

\* issues += scan_file(...)
EncMainAdd ==
    /\ pc = "enc_main:add"
    /\ total' = total + rc
    /\ rc' = None
    /\ pc' = "enc_main:walk"
    /\ UNCHANGED << lines, idx, in_code_block, code_fence_pattern, file_issues,
                    kind, visited, issues, out, err, prev_unclosed, log,
                    rewriter >>

\* os.walk is exhausted: the summary goes to stderr and main returns.
EncMainReturn ==
    /\ pc = "enc_main:walk"
    /\ err' = IF total # 0 THEN << [found |-> total] >> ELSE << >>
    /\ rc' = IF total # 0 THEN 1 ELSE 0
    /\ pc' = "enc_main:exit"
    /\ UNCHANGED << lines, idx, in_code_block, code_fence_pattern, file_issues,
                    kind, visited, issues, out, prev_unclosed, total, log,
                    rewriter >>

-----------------------------------------------------------------------------
(* docs/hooks.py (the Link Rewriter) *)

REPO_URL ==
    << "h", "t", "t", "p", "s", ":", "/", "/", "g", "i", "t", "h", "u", "b",
       ".", "c", "o", "m", "/", "w", "a", "l", "l", "s", "t", "o", "p", "/",
       "D", "x", "M", "e", "s", "s", "a", "g", "i", "n", "g" >>

BRANCH == << "m", "a", "s", "t", "e", "r" >>

SOURCE_PREFIXES ==
    { << "R", "u", "n", "t", "i", "m", "e", "/" >>,
      << "T", "e", "s", "t", "s", "/" >>,
      << "E", "d", "i", "t", "o", "r", "/" >>,
      << "S", "a", "m", "p", "l", "e", "s", "~", "/" >> }

\* url.startswith(SOURCE_PREFIXES)
is_source_link(url) == \E prefix \in SOURCE_PREFIXES : StartsWith(url, prefix)

\* s.split(c) for a one-character separator c
RECURSIVE Split(_, _)
Split(s, c) ==
    LET k == FirstIn(s, 1, {c})
    IN  IF k = 0
        THEN << s >>
        ELSE << Slice(s, 1, k - 1) >> \o Split(Slice(s, k + 1, Len(s)), c)

\* c.join(parts)
RECURSIVE Join(_, _)
Join(parts, c) ==
    IF Len(parts) = 0 THEN << >>
    ELSE IF Len(parts) = 1 THEN parts[1]
    ELSE parts[1] \o << c >> \o Join(Tail(parts), c)

\* s.rstrip(c)
RStrip(s, c) ==
    LET keep == {i \in 1..Len(s) : s[i] # c}
    IN  IF keep = {} THEN << >> ELSE Slice(s, 1, Max(keep))

is_directory_link(path) ==
    IF EndsWith(path, << "/" >>)
    THEN TRUE
    ELSE LET components == Split(RStrip(path, "/"), "/")
             last_component == components[Len(components)]
         IN  ~Contains(last_component, ".")

\* The characters urllib.parse.quote leaves alone whatever safe is.
AlwaysSafe ==
    { Ascii[i] : i \in (34..59) \cup (66..91) \cup (17..26) } \cup {"_", ".", "-", "~"}

HexDigits ==
    << "0", "1", "2", "3", "4", "5", "6", "7", "8", "9", "A", "B", "C", "D", "E", "F" >>

\* quote of one character, safe="": the byte of an ASCII character as %XX.
QuoteChar(c) ==
    IF c \in AlwaysSafe
    THEN << c >>
    ELSE << "%", HexDigits[(Ord(c) \div 16) + 1], HexDigits[(Ord(c) % 16) + 1] >>

\* quote(component, safe="")
RECURSIVE quote(_)
quote(component) ==
    IF component = << >> THEN << >>
    ELSE QuoteChar(Head(component)) \o quote(Tail(component))

\* A plausible slip: the path is quoted whole, its separators with it.
transform_to_github_url_QuotesWholePath(path) ==
    LET link_type == IF is_directory_link(path)
                     THEN << "t", "r", "e", "e" >>
                     ELSE << "b", "l", "o", "b" >>
    IN  REPO_URL \o << "/" >> \o link_type \o << "/" >> \o BRANCH \o << "/" >>
            \o quote(path)

transform_to_github_url(path) ==
    LET link_type == IF is_directory_link(path)
                     THEN << "t", "r", "e", "e" >>
                     ELSE << "b", "l", "o", "b" >>
        path_components == Split(path, "/")
        encoded_components == [i \in 1..Len(path_components) |->
                                  quote(path_components[i])]
        encoded_path == Join(encoded_components, "/")
    IN  REPO_URL \o << "/" >> \o link_type \o << "/" >> \o BRANCH \o << "/" >>
            \o encoded_path

\* MARKDOWN_LINK_PATTERN, \[([^\]]+)\]\(([^)]+)\), at position i: the match
\* with its groups, or NoMatch.  Both classes exclude the character that
\* follows them, so the greedy reading is the only one.
MARKDOWN_LINK_PATTERN(s, i) ==
    IF CharAt(s, i) # "["
    THEN NoMatch
    ELSE LET close == FirstIn(s, i + 1, {"]"})
         IN  IF close = 0 \/ close = i + 1 \/ CharAt(s, close + 1) # "("
             THEN NoMatch
             ELSE LET fin == FirstIn(s, close + 2, {")"})
                  IN  IF fin = 0 \/ fin = close + 2
                      THEN NoMatch
                      ELSE [start  |-> i,
                            end    |-> fin,
                            group0 |-> Slice(s, i, fin),
                            text   |-> Slice(s, i + 1, close - 1),
                            target |-> Slice(s, close + 2, fin - 1)]

\* MARKDOWN_LINK_PATTERN.finditer(s), from position from on.
RECURSIVE MarkdownLinks(_, _)
MarkdownLinks(s, from) ==
    LET starts == {i \in from..Len(s) : MARKDOWN_LINK_PATTERN(s, i).start # 0}
    IN  IF starts = {}
        THEN << >>
        ELSE LET m == MARKDOWN_LINK_PATTERN(s, Min(starts))
             IN  << m >> \o MarkdownLinks(s, m.end + 1)

transform_link(match) ==
    LET display_text == match.text
        url == match.target
    IN  IF ~is_source_link(url)
        THEN match.group0
        ELSE << "[" >> \o display_text \o << "]", "(" >>
                 \o transform_to_github_url(url) \o << ")" >>

\* MARKDOWN_LINK_PATTERN.sub(transform_link, s): the text between the
\* matches ms is kept, each match gives way to what transform_link returns.
RECURSIVE SubLinks(_, _, _)
SubLinks(s, from, ms) ==
    IF ms = << >>
    THEN Slice(s, from, Len(s))
    ELSE Slice(s, from, ms[1].start - 1) \o transform_link(ms[1])
             \o SubLinks(s, ms[1].end + 1, Tail(ms))

TransformLinks(s) == SubLinks(s, 1, MarkdownLinks(s, 1))

NoSpan == [start |-> 0, end |-> 0]

Tildes == << "~", "~", "~" >>

\* FENCED_CODE_BLOCK_PATTERN, (BTBTBT|~~~)[^\n]*\n.*?\1 with DOTALL, at
\* position i: the delimiter, the rest of its line, then the least text
\* that the same delimiter follows.
FENCED_CODE_BLOCK_PATTERN(s, i) ==
    IF i + 2 > Len(s) \/ Slice(s, i, i + 2) \notin {Backticks(3), Tildes}
    THEN NoSpan
    ELSE LET delimiter == Slice(s, i, i + 2)
             newline == FirstIn(s, i + 3, {"\n"})
             closes == {j \in (newline + 1)..(Len(s) - 2) :
                          Slice(s, j, j + 2) = delimiter}
         IN  IF newline = 0 \/ closes = {}
             THEN NoSpan
             ELSE [start |-> i, end |-> Min(closes) + 2]

\* INLINE_CODE_PATTERN, (BT+)(?!BT)(.*?)(?<!BT)\1(?!BT) with DOTALL, at
\* position i: the run of backticks from i to its end opens the span (a
\* shorter run fails the lookahead), and the first later run of exactly
\* that length, with no backtick on either side, closes it.
INLINE_CODE_PATTERN(s, i) ==
    IF CharAt(s, i) # BT
    THEN NoSpan
    ELSE LET open_end == RunEndIn(s, i, {BT})
             n == open_end - i + 1
             closes == {j \in (open_end + 2)..(Len(s) - n + 1) :
                          /\ \A k \in j..(j + n - 1) : s[k] = BT
                          /\ CharAt(s, j - 1) # BT
                          /\ CharAt(s, j + n) # BT}
         IN  IF closes = {}
             THEN NoSpan
             ELSE [start |-> i, end |-> Min(closes) + n - 1]

Digits == << "0", "1", "2", "3", "4", "5", "6", "7", "8", "9" >>

\* str(n) of a natural number
RECURSIVE Decimal(_)
Decimal(n) ==
    IF n < 10 THEN << Digits[n + 1] >>
    ELSE Decimal(n \div 10) \o << Digits[(n % 10) + 1] >>

\* f"__FENCED_CODE_BLOCK_{n}__"
FencedPlaceholder(n) ==
    << "_", "_", "F", "E", "N", "C", "E", "D", "_", "C", "O", "D", "E", "_",
       "B", "L", "O", "C", "K", "_" >>
        \o Decimal(n) \o << "_", "_" >>

\* f"__INLINE_CODE_{n}__"
InlinePlaceholder(n) ==
    << "_", "_", "I", "N", "L", "I", "N", "E", "_", "C", "O", "D", "E", "_" >>
        \o Decimal(n) \o << "_", "_" >>

\* FENCED_CODE_BLOCK_PATTERN.sub(mask_fenced_block, s), from position from
\* on with the list blocks so far: the masked text and the list.
RECURSIVE MaskFenced(_, _, _)
MaskFenced(s, from, blocks) ==
    LET starts == {i \in from..Len(s) : FENCED_CODE_BLOCK_PATTERN(s, i).start # 0}
    IN  IF starts = {}
        THEN [content |-> Slice(s, from, Len(s)), saved |-> blocks]
        ELSE LET m == FENCED_CODE_BLOCK_PATTERN(s, Min(starts))
                 rest == MaskFenced(s, m.end + 1,
                                    Append(blocks, Slice(s, m.start, m.end)))
             IN  [content |-> Slice(s, from, m.start - 1)
                                  \o FencedPlaceholder(Len(blocks))
                                  \o rest.content,
                  saved   |-> rest.saved]

\* INLINE_CODE_PATTERN.sub(mask_inline_code, s), likewise.
RECURSIVE MaskInline(_, _, _)
MaskInline(s, from, codes) ==
    LET starts == {i \in from..Len(s) : INLINE_CODE_PATTERN(s, i).start # 0}
    IN  IF starts = {}
        THEN [content |-> Slice(s, from, Len(s)), saved |-> codes]
        ELSE LET m == INLINE_CODE_PATTERN(s, Min(starts))
                 rest == MaskInline(s, m.end + 1,
                                    Append(codes, Slice(s, m.start, m.end)))
             IN  [content |-> Slice(s, from, m.start - 1)
                                  \o InlinePlaceholder(Len(codes))
                                  \o rest.content,
                  saved   |-> rest.saved]

\* s.replace(old, new): every occurrence of old, left to right, none
\* overlapping another.
RECURSIVE Replace(_, _, _)
Replace(s, old, new) ==
    LET hits == {i \in 1..(Len(s) - Len(old) + 1) :
                    Slice(s, i, i + Len(old) - 1) = old}
    IN  IF hits = {}
        THEN s
        ELSE Slice(s, 1, Min(hits) - 1) \o new
                 \o Replace(Slice(s, Min(hits) + Len(old), Len(s)), old, new)

\* The loop that restores the inline code spans, from list index i on.
RECURSIVE RestoreInline(_, _, _)
RestoreInline(text, codes, i) ==
    IF i > Len(codes) THEN text
    ELSE RestoreInline(Replace(text, InlinePlaceholder(i - 1), codes[i]),
                       codes, i + 1)

\* The loop that restores the fenced blocks, from list index i on.
RECURSIVE RestoreFenced(_, _, _)
RestoreFenced(text, blocks, i) ==
    IF i > Len(blocks) THEN text
    ELSE RestoreFenced(Replace(text, FencedPlaceholder(i - 1), blocks[i]),
                       blocks, i + 1)

\* on_page_markdown as a function of the page text.
on_page_markdown(page_text) ==
    LET fenced == MaskFenced(page_text, 1, << >>)
        inline == MaskInline(fenced.content, 1, << >>)
        linked == TransformLinks(inline.content)
    IN  RestoreFenced(RestoreInline(linked, inline.saved, 1), fenced.saved, 1)

\* Pieces of page text: links to a source file, to a source directory, to
\* another page and to a directory with a dotted parent; an inline code
\* span that holds a source link and one that holds none; the text of the
\* first two inline code placeholders; the opening and the closing lines
\* of a four-backtick block that holds a three-backtick block; a
\* three-backtick fence line.
T_file ==
    << "[", "a", "]", "(", "R", "u", "n", "t", "i", "m", "e", "/", "x", " ",
       "y", ".", "c", "s", ")", "\n" >>

T_links ==
    << "[", "d", "]", "(", "S", "a", "m", "p", "l", "e", "s", "~", "/", "C",
       "o", "r", "e", "/", ")", " ", "[", "b", "]", "(", "d", "o", "c", "s",
       "/", "y", ".", "m", "d", ")", " ", "[", "e", "]", "(", "T", "e", "s",
       "t", "s", "/", "v", "1", ".", "0", "/", "C", "o", "r", "e", ")" >>

T_span ==
    << BT, "[", "c", "]", "(", "E", "d", "i", "t", "o", "r", "/", "z", ".",
       "c", "s", ")", BT >>

T_code == << BT, "x", BT >>

T_ph0 ==
    << "_", "_", "I", "N", "L", "I", "N", "E", "_", "C", "O", "D", "E", "_",
       "0", "_", "_" >>

T_ph1 ==
    << "_", "_", "I", "N", "L", "I", "N", "E", "_", "C", "O", "D", "E", "_",
       "1", "_", "_" >>

T_open ==
    << BT, BT, BT, BT, "\n", BT, BT, BT, "\n" >>

T_close ==
    << BT, BT, BT, "\n", BT, BT, BT, BT, "\n" >>

T_fence ==
    << BT, BT, BT, "\n" >>

Pieces ==
    { T_file, T_links, T_span, T_code, T_ph0, T_ph1, T_open, T_close, T_fence }

\* Most pieces a page text is made of.
MaxPieces == 3

\* ''.join(parts)
RECURSIVE Concat(_)
Concat(parts) ==
    IF parts = << >> THEN << >> ELSE Head(parts) \o Concat(Tail(parts))

PageTexts == { Concat(parts) : parts \in SeqsUpTo(Pieces, MaxPieces) }

\* Line 161: the fenced blocks are masked.
PageMaskFenced ==
    /\ pc = "on_page_markdown"
    /\ LET r == MaskFenced(markdown, 1, fenced_blocks)
       IN  /\ content' = r.content
           /\ fenced_blocks' = r.saved
    /\ pc' = "mask_inline"
    /\ UNCHANGED << lines, idx, in_code_block, code_fence_pattern, file_issues,
                    kind, visited, issues, out, err, rc, prev_unclosed, total,
                    log, markdown, inline_codes >>

\* Line 164: the inline code spans are masked.
PageMaskInline ==
    /\ pc = "mask_inline"
    /\ LET r == MaskInline(content, 1, inline_codes)
       IN  /\ content' = r.content
           /\ inline_codes' = r.saved
    /\ pc' = "transform"
    /\ UNCHANGED << lines, idx, in_code_block, code_fence_pattern, file_issues,
                    kind, visited, issues, out, err, rc, prev_unclosed, total,
                    log, markdown, fenced_blocks >>

\* Line 167: the links are transformed.
PageTransformLinks ==
    /\ pc = "transform"
    /\ content' = TransformLinks(content)
    /\ pc' = "restore_inline"
    /\ UNCHANGED << lines, idx, in_code_block, code_fence_pattern, file_issues,
                    kind, visited, issues, out, err, rc, prev_unclosed, total,
                    log, markdown, fenced_blocks, inline_codes >>

\* Lines 170-171: the inline code spans are put back.
PageRestoreInline ==
    /\ pc = "restore_inline"
    /\ content' = RestoreInline(content, inline_codes, 1)
    /\ pc' = "restore_fenced"
    /\ UNCHANGED << lines, idx, in_code_block, code_fence_pattern, file_issues,
                    kind, visited, issues, out, err, rc, prev_unclosed, total,
                    log, markdown, fenced_blocks, inline_codes >>

\* Lines 174-177: the fenced blocks are put back and content is returned.
PageRestoreFenced ==
    /\ pc = "restore_fenced"
    /\ content' = RestoreFenced(content, fenced_blocks, 1)
    /\ pc' = "page_done"
    /\ UNCHANGED << lines, idx, in_code_block, code_fence_pattern, file_issues,
                    kind, visited, issues, out, err, rc, prev_unclosed, total,
                    log, markdown, fenced_blocks, inline_codes >>

-----------------------------------------------------------------------------
(* Specifications *)

Idle ==
    /\ idx = 1
    /\ in_code_block = FALSE
    /\ code_fence_pattern = None
    /\ file_issues = << >>
    /\ kind = << >>
    /\ visited = 0
    /\ issues = 0
    /\ out = << >>
    /\ err = << >>
    /\ rc = None
    /\ prev_unclosed = FALSE
    /\ total = 0
    /\ log = << >>

\* on_page_markdown is not running.
NoPage ==
    /\ markdown = << >>
    /\ content = << >>
    /\ fenced_blocks = << >>
    /\ inline_codes = << >>

\* check_file_content called on a document of link lines.
Init ==
    /\ pc = "check_file_content"
    /\ lines \in SeqsUpTo(Lines, MaxLines)
    /\ Idle
    /\ NoPage

Next == ScanLine \/ ScanReturn

Spec == Init /\ [][Next]_vars

\* check_file_content called on a document of link lines, those with
\* queries, fragments and encoded targets among them.
InitLinks ==
    /\ pc = "check_file_content"
    /\ lines \in SeqsUpTo(LinkLines, MaxLinkLines)
    /\ Idle
    /\ NoPage

SpecLinks == InitLinks /\ [][Next]_vars

\* check_file_content called on a document of fence lines.
InitFence ==
    /\ pc = "check_file_content"
    /\ lines \in SeqsUpTo(FenceLines, MaxFenceLines)
    /\ Idle
    /\ NoPage

SpecFence == InitFence /\ [][Next]_vars

\* main of check_markdown_links.py on a directory tree.
InitMain ==
    /\ pc = "main:walk"
    /\ lines = << >>
    /\ Idle
    /\ NoPage

NextMain ==
    \/ MainSkipOther
    \/ MainReadFails
    \/ MainCheckFile
    \/ ScanLine
    \/ ScanReturn
    \/ MainReport
    \/ MainReturn

SpecMain == InitMain /\ [][NextMain]_vars

\* scan_file of check_markdown_url_encoding.py on one file.
InitEnc ==
    /\ pc = "scan_file:open"
    /\ lines = << >>
    /\ Idle
    /\ NoPage

NextEnc == EncRead \/ EncReadFails \/ EncScanLine \/ EncReturn

SpecEnc == InitEnc /\ [][NextEnc]_vars

\* main of either scanner on a directory tree.
InitMains ==
    /\ pc \in {"main:walk", "enc_main:walk"}
    /\ lines = << >>
    /\ Idle
    /\ NoPage

NextMains ==
    \/ MainSkipOther
    \/ MainReadFails
    \/ MainCheckFile
    \/ ScanLine
    \/ ScanReturn
    \/ MainReport
    \/ MainReturn
    \/ EncMainSkipOther
    \/ EncMainScanFile
    \/ EncRead
    \/ EncReadFails
    \/ EncScanLine
    \/ EncReturn
    \/ EncMainAdd
    \/ EncMainReturn

SpecMains == InitMains /\ [][NextMains]_vars

\* on_page_markdown called on a page text.
InitPage ==
    /\ pc = "on_page_markdown"
    /\ lines = << >>
    /\ Idle
    /\ markdown \in PageTexts
    /\ content = << >>
    /\ fenced_blocks = << >>
    /\ inline_codes = << >>

NextPage ==
    \/ PageMaskFenced
    \/ PageMaskInline
    \/ PageTransformLinks
    \/ PageRestoreInline
    \/ PageRestoreFenced

SpecPage == InitPage /\ [][NextPage]_vars

-----------------------------------------------------------------------------
(* Properties *)

\* The positions of file_issues that are issues of line n.
IssuesOn(n) == {i \in 1..Len(file_issues) : file_issues[i].line = n}

\* The line starts, after its leading blanks, with three backticks.
StartsFence(line) == StartsWith(LStrip(line), Backticks(3))

\* The line holds a link that is flagged when the line is scanned as prose.
HoldsFlaggedLink(line) == FlaggedOf(LinkFindIter(remove_inline_code(line), 1)) # << >>

\* C1: check_file_content reports no issue on a fence line (one that opens
\* or closes a block) nor on a line between an opening fence and its
\* closing fence, whatever links the line holds: every issue is on a line
\* the fence tracker left as prose, and none is on a line that starts with
\* three backticks.
C1_NoIssueInsideFence ==
    \A i \in 1..Len(file_issues) :
        /\ file_issues[i].line \in 1..Len(kind)
        /\ kind[file_issues[i].line] = "prose"
        /\ ~StartsFence(lines[file_issues[i].line])

\* C1 witness: a finished scan in which an opening fence line and a line
\* inside the block both hold a link that would be flagged in prose, and a
\* prose line of the same document is flagged.
C1_Witness ==
    /\ pc = "returned"
    /\ \E o, k \in 1..Len(kind) :
        /\ kind[o] = "open" /\ HoldsFlaggedLink(lines[o])
        /\ kind[k] = "inside" /\ HoldsFlaggedLink(lines[k])
    /\ file_issues # << >>

\* C2: inside a block opened with N >= 3 backticks, check_code_fence leaves
\* the block exactly on a line whose stripped content is those N backticks;
\* on any other line (fewer or more backticks, N backticks and more text, no
\* backticks) it returns the state unchanged and reports no fence line.
C2_OnlyExactFenceCloses ==
    (Scanning /\ in_code_block /\ idx <= Len(lines)) =>
        LET n == Len(code_fence_pattern)
            r == check_code_fence(LStrip(lines[idx]), in_code_block, code_fence_pattern)
        IN  /\ n >= 3
            /\ code_fence_pattern = Backticks(n)
            /\ IF Strip(lines[idx]) = Backticks(n)
               THEN r = << FALSE, None, TRUE >>
               ELSE r = << TRUE, code_fence_pattern, FALSE >>

\* C2 witness: inside a block opened with four backticks, a line of three
\* backticks and a line of four backticks followed by text have been scanned
\* and the block is still open with its marker of four.
C2_Witness ==
    /\ Scanning
    /\ in_code_block
    /\ code_fence_pattern = Backticks(4)
    /\ \E j, k \in 1..Len(kind) :
        /\ kind[j] = "inside" /\ lines[j] = F_three
        /\ kind[k] = "inside" /\ lines[k] = F_open4

\* Line o opened a block with four backticks, c is the first later line
\* that is exactly four backticks, and two lines of exactly three backticks
\* lie between them.
NestedScenario(o, c) ==
    /\ kind[o] = "open"
    /\ BacktickCount(LStrip(lines[o])) = 4
    /\ Strip(lines[c]) = Backticks(4)
    /\ \A j \in (o + 1)..(c - 1) : Strip(lines[j]) # Backticks(4)
    /\ \E a, b \in (o + 1)..(c - 1) :
        /\ a < b
        /\ Strip(lines[a]) = Backticks(3)
        /\ Strip(lines[b]) = Backticks(3)

\* C3: when a block opened with four backticks holds a three-backtick block
\* as content, no line from the opening to the matching close is flagged,
\* and a flagged link on a later line, with no fence line between the close
\* and it, is reported exactly once, under its own line number.
C3_NestedFenceThenLink ==
    pc = "returned" =>
        \A o \in 1..Len(lines) : \A c \in (o + 1)..Len(lines) :
            NestedScenario(o, c) =>
                /\ \A j \in o..c : IssuesOn(j) = {}
                /\ \A j \in (c + 1)..Len(lines) :
                    (/\ lines[j] = F_link
                     /\ \A k \in (c + 1)..j : ~StartsFence(lines[k]))
                    => \E i \in 1..Len(file_issues) :
                        /\ IssuesOn(j) = {i}
                        /\ file_issues[i].text = << "a", ".", "m", "d" >>
                        /\ file_issues[i].target = << "a", ".", "m", "d" >>

\* C3 witness: the scenario with a link inside the inner block and one
\* after the outer close, which is the only issue of the document.
C3_Witness ==
    /\ pc = "returned"
    /\ \E o, c \in 1..Len(lines) :
        /\ o < c
        /\ c < Len(lines)
        /\ NestedScenario(o, c)
        /\ \E a, j, b \in (o + 1)..(c - 1) :
            /\ a < j /\ j < b
            /\ lines[a] = F_three /\ lines[j] = F_link /\ lines[b] = F_three
        /\ lines[c + 1] = F_link
        /\ Len(file_issues) = 1
        /\ file_issues[1].line = c + 1

\* Line o opened a block and no later line of the document is exactly its
\* opening marker.
Unclosed(o) ==
    /\ kind[o] = "open"
    /\ \A j \in (o + 1)..Len(lines) :
        Strip(lines[j]) # Backticks(BacktickCount(LStrip(lines[o])))

\* C4: when a block is opened and no later line is exactly its opening
\* marker, every line after the opening is scanned as inside code, to the
\* end of the document, and none of them is flagged.
C4_UnclosedBlockRunsToEnd ==
    pc = "returned" =>
        \A o \in 1..Len(lines) :
            Unclosed(o) =>
                \A j \in (o + 1)..Len(lines) :
                    /\ kind[j] = "inside"
                    /\ IssuesOn(j) = {}

\* C4 witness: an unclosed block of three backticks followed by a fence of
\* another length and, after it, a link that would be flagged in prose.
C4_Witness ==
    /\ pc = "returned"
    /\ \E o, f, j \in 1..Len(lines) :
        /\ o < f /\ f < j
        /\ Unclosed(o)
        /\ lines[o] = F_three
        /\ lines[f] = F_four
        /\ lines[j] = F_link

\* C5: fence state is reset at the start of each document and not carried
\* from one document to the next: when main scans files in sequence, each
\* call of check_file_content starts outside any block, and the issues it
\* returns for a file are those of that file scanned alone.
C5_FilesScannedInIsolation ==
    /\ (pc = "main:check_file_content" /\ idx = 1) =>
            (in_code_block = FALSE /\ code_fence_pattern = None)
    /\ pc = "main:report" => file_issues = CheckFileContent(lines)

\* C5 witness: the file scanned before ended inside an unclosed block, and
\* the scan of the next file has returned issues.
C5_Witness ==
    /\ pc = "main:report"
    /\ prev_unclosed
    /\ file_issues # << >>

\* The offsets, in the line without its code spans, of the links that are
\* flagged: those whose target is checked and whose text is problematic.
FlaggedCols(line) ==
    LET ms == LinkFindIter(remove_inline_code(line), 1)
    IN  {ms[n].start : n \in {n \in 1..Len(ms) :
            /\ should_check_target(Strip(ms[n].target))
            /\ is_link_text_problematic(Strip(ms[n].text), Strip(ms[n].target))}}

\* C6: the issue list is in line-number order, the issues of one line are
\* in the left-to-right order of their links, and every flagged occurrence
\* has an issue of its own, identical links included.
C6_IssuesInDocumentOrder ==
    /\ \A i, j \in 1..Len(file_issues) :
        i < j =>
            \/ file_issues[i].line < file_issues[j].line
            \/ /\ file_issues[i].line = file_issues[j].line
               /\ file_issues[i].col < file_issues[j].col
    /\ \A k \in 1..Len(kind) :
        kind[k] = "prose" =>
            /\ {file_issues[i].col : i \in IssuesOn(k)} = FlaggedCols(lines[k])
            /\ Cardinality(IssuesOn(k)) = Cardinality(FlaggedCols(lines[k]))

\* C6 witness: a finished scan with issues on two lines and, on one line,
\* two issues with the same text and target.
C6_Witness ==
    /\ pc = "returned"
    /\ \E i, j \in 1..Len(file_issues) :
        /\ i < j
        /\ file_issues[i].line = file_issues[j].line
        /\ file_issues[i].text = file_issues[j].text
        /\ file_issues[i].target = file_issues[j].target
    /\ \E i, j \in 1..Len(file_issues) : file_issues[i].line < file_issues[j].line

\* The target prefixes the specification exempts from the Link Scanner.
ExemptFromLinkScan ==
    { << "#" >>,
      << "h", "t", "t", "p", ":", "/", "/" >>,
      << "h", "t", "t", "p", "s", ":", "/", "/" >>,
      << "m", "a", "i", "l", "t", "o", ":" >>,
      << "t", "e", "l", ":" >>,
      << "d", "a", "t", "a", ":" >> }

\* C7: a link whose target begins with "#", "http://", "https://",
\* "mailto:", "tel:" or "data:" yields no issue, whatever its display text:
\* no issue has such a target, and a prose line whose links all have such
\* targets yields no issue.
C7_ExemptTargetsNeverFlagged ==
    /\ \A i \in 1..Len(file_issues) :
        ~ \E p \in ExemptFromLinkScan : StartsWith(file_issues[i].target, p)
    /\ \A k \in 1..Len(kind) :
        lines[k] \in {L_web, L_schemes} => IssuesOn(k) = {}

\* C7 witness: the two lines of exempt targets under file-name and
\* path-like texts have been scanned as prose, and a flagged link as well.
C7_Witness ==
    /\ pc = "returned"
    /\ \E j, k \in 1..Len(kind) :
        /\ kind[j] = "prose" /\ lines[j] = L_web
        /\ kind[k] = "prose" /\ lines[k] = L_schemes
    /\ file_issues # << >>

\* The targets the specification calls external.
ExternalByScheme ==
    { << "h", "t", "t", "p", ":", "/", "/" >>,
      << "h", "t", "t", "p", "s", ":", "/", "/" >>,
      << "m", "a", "i", "l", "t", "o", ":" >>,
      << "t", "e", "l", ":" >>,
      << "d", "a", "t", "a", ":" >> }

\* C8 as stated: the Encoding Scanner reports nothing for a link or
\* reference definition whose target is external or an anchor ("#..."),
\* whether or not it holds a blank or a plus sign.
C8_ExternalAndAnchorTargetsNotReported ==
    \A i \in 1..Len(out) :
        /\ ~ \E p \in ExternalByScheme : StartsWith(out[i].target, p)
        /\ ~ StartsWith(out[i].target, << "#" >>)

\* C8 amended: the Encoding Scanner reports nothing for a link or reference
\* definition whose target begins with "http://", "https://", "mailto:",
\* "tel:" or "data:", whether or not it holds a plus sign.
C8_ExternalTargetsNotReported ==
    /\ \A i \in 1..Len(out) :
        ~ \E p \in ExternalByScheme : StartsWith(out[i].target, p)
    /\ \A k \in 1..(idx - 1) :
        lines[k] \in {E_web, E_schemes, E_def_web} =>
            ~ \E i \in 1..Len(out) : out[i].line = k

\* C8 witness: a file of external targets with plus signs, as links and as
\* a reference definition, has been scanned and nothing was reported.
C8_Witness ==
    /\ pc = "returned"
    /\ \E j, k \in 1..Len(lines) :
        /\ lines[j] \in {E_web, E_schemes}
        /\ lines[k] = E_def_web
    /\ out = << >>
    /\ rc = 0

\* C9: the Encoding Scanner reports one issue for the line of a link
\* written with the target "My File.md", and none for the line of the same
\* link written "My%20File.md".
C9_BlankInTargetReported ==
    pc = "returned" =>
        \A k \in 1..Len(lines) :
            /\ lines[k] = E_space =>
                    Cardinality({i \in 1..Len(out) : out[i].line = k}) = 1
            /\ lines[k] = E_encoded =>
                    Cardinality({i \in 1..Len(out) : out[i].line = k}) = 0

\* The display text holds "/" or "\" and no whitespace.
PathLike(text) ==
    /\ Contains(text, "/") \/ Contains(text, "\\")
    /\ \A i \in 1..Len(text) : text[i] \notin Whitespace

\* C10 as stated: every link on a prose line whose display text holds "/"
\* or "\" and no whitespace is flagged, whatever its target.
C10_PathLikeTextFlagged ==
    \A k \in 1..Len(kind) :
        kind[k] = "prose" =>
            LET ms == LinkFindIter(remove_inline_code(lines[k]), 1)
            IN  \A n \in 1..Len(ms) :
                    PathLike(ms[n].text) =>
                        \E i \in IssuesOn(k) :
                            /\ file_issues[i].col = ms[n].start
                            /\ file_issues[i].text = ms[n].text

\* The target is one the Link Scanner checks: it begins with none of the
\* exempt prefixes and, without query and fragment and percent-decoded,
\* ends with ".md" in any letter case.
IsCandidate(target) ==
    /\ ~ \E p \in ExemptFromLinkScan : StartsWith(target, p)
    /\ EndsWith(Lower(TargetCore(target)), DotMd)

\* C10 amended: every link the scanner extracts from a prose line, code
\* spans removed, whose target is a candidate and whose display text holds
\* "/" or "\" and no whitespace is flagged, even if the target does not
\* name the display text.
C10_PathLikeTextOfCandidateFlagged ==
    \A k \in 1..Len(kind) :
        kind[k] = "prose" =>
            LET ms == LinkFindIter(remove_inline_code(lines[k]), 1)
            IN  \A n \in 1..Len(ms) :
                    (PathLike(ms[n].text) /\ IsCandidate(ms[n].target)) =>
                        \E i \in IssuesOn(k) :
                            /\ file_issues[i].col = ms[n].start
                            /\ file_issues[i].text = ms[n].text
                            /\ file_issues[i].target = ms[n].target

\* C10 witness: the link [d/x](b.md), whose target does not name its text,
\* has been scanned on a prose line and is among the issues.
C10_Witness ==
    /\ pc = "returned"
    /\ \E k \in 1..Len(kind) :
        /\ kind[k] = "prose"
        /\ lines[k] = L_dup
        /\ \E i \in IssuesOn(k) :
            /\ file_issues[i].text = << "d", "/", "x" >>
            /\ file_issues[i].target = << "b", ".", "m", "d" >>

\* Some link of the text, as MARKDOWN_LINK_PATTERN reads it from any
\* position, has a target that starts with a recognized source prefix.
HasSourceLink(text) ==
    \E i \in 1..Len(text) :
        /\ MARKDOWN_LINK_PATTERN(text, i).start # 0
        /\ is_source_link(MARKDOWN_LINK_PATTERN(text, i).target)

\* C11: a page text that holds no link to a recognized source prefix comes
\* back from on_page_markdown unchanged, whatever fenced blocks, inline
\* code spans or placeholder-like text it holds.
C11_NoSourceLinkUnchanged ==
    (pc = "page_done" /\ ~HasSourceLink(markdown)) => content = markdown

\* C12: on_page_markdown applied to its own result changes nothing more.
C12_RewriteIdempotent ==
    pc = "page_done" => on_page_markdown(content) = content

\* text.splitlines(keepends=True), the line ends being "\n"
RECURSIVE SplitLines(_)
SplitLines(text) ==
    IF text = << >> THEN << >>
    ELSE LET newline == FirstIn(text, 1, {"\n"})
         IN  IF newline = 0
             THEN << text >>
             ELSE << Slice(text, 1, newline) >>
                      \o SplitLines(Slice(text, newline + 1, Len(text)))

\* The fenced blocks of a document that are closed, each as the numbers of
\* its opening and its closing fence line.  A block is opened by a line
\* that starts with three or more backticks and closed by the next line
\* that is that many backticks and nothing more (the fence rule of
\* check_code_fence), so a four-backtick block may hold three-backtick
\* fence lines.
RECURSIVE ClosedBlocks(_, _, _, _, _)
ClosedBlocks(doc, n, in_block, fence_pattern, opened) ==
    IF n > Len(doc) THEN {}
    ELSE LET r == check_code_fence(LStrip(doc[n]), in_block, fence_pattern)
         IN  (IF in_block /\ ~r[1] THEN {<< opened, n >>} ELSE {})
                 \cup ClosedBlocks(doc, n + 1, r[1], r[2],
                                   IF ~in_block /\ r[1] THEN n ELSE opened)

\* sub in s
Occurs(s, sub) ==
    \E i \in 1..(Len(s) - Len(sub) + 1) : Slice(s, i, i + Len(sub) - 1) = sub

\* C13: every fenced code block of the page (a four-backtick block that
\* holds three-backtick fence lines included) and every inline code span
\* stands in the result of on_page_markdown exactly as in the page, links
\* to source prefixes inside it included.
C13_CodeBlocksUntouched ==
    pc = "page_done" =>
        LET doc == SplitLines(markdown)
        IN  /\ \A b \in ClosedBlocks(doc, 1, FALSE, None, 0) :
                   Occurs(content, Concat(SubSeq(doc, b[1], b[2])))
            /\ \A i \in 1..Len(inline_codes) : Occurs(content, inline_codes[i])

\* The page text with its code masked: the text step 3 looks for links in.
Masked(page_text) ==
    MaskInline(MaskFenced(page_text, 1, << >>).content, 1, << >>).content

\* The target ends with "/" or its final path segment holds no ".".
NamesDirectory(target) ==
    EndsWith(target, << "/" >>) \/ ~Contains(Basename(target), ".")

\* The link after stands for the link before as C17 says: the same display
\* text, and a target that is the repository URL, "tree" or "blob", the
\* branch and a path with as many components as the target of before, each
\* the percent-encoding of the component in its place.
RewrittenAsClaimed(before, after) ==
    LET base == REPO_URL \o << "/" >>
                    \o (IF NamesDirectory(before.target)
                        THEN << "t", "r", "e", "e" >>
                        ELSE << "b", "l", "o", "b" >>)
                    \o << "/" >> \o BRANCH \o << "/" >>
        was == Split(before.target, "/")
        now == Split(Slice(after.target, Len(base) + 1, Len(after.target)), "/")
    IN  /\ after.text = before.text
        /\ StartsWith(after.target, base)
        /\ Len(now) = Len(was)
        /\ \A j \in 1..Len(was) :
               /\ Unquote(now[j]) = was[j]
               /\ \A k \in 1..Len(now[j]) : now[j][k] \in AlwaysSafe \cup {"%"}

LinkScannerRuns ==
    pc \in {"main:walk", "main:check_file_content", "main:report", "exit"}

\* What the scanner that runs has to report on entry n of the walk, as
\* tuples of a line number and what is reported on that line: nothing for
\* a file that is no markdown file or could not be read.
ToReport(n) ==
    IF log[n].read # "ok" THEN << >>
    ELSE IF LinkScannerRuns
         THEN LET found == CheckFileContent(log[n].doc)
              IN  [i \in 1..Len(found) |->
                      << found[i].line, found[i].text, found[i].target >>]
         ELSE LET found == ScanFileFrom(log[n].doc, 1)
              IN  [i \in 1..Len(found) |->
                      << found[i].line, found[i].shape, found[i].target >>]

\* What was printed for entry n of the walk, as the same tuples.
Reported(n) ==
    LET printed == SelectSeq(out, LAMBDA r : r.path = n)
    IN  [i \in 1..Len(printed) |->
            IF LinkScannerRuns
            THEN << printed[i].line, printed[i].text, printed[i].target >>
            ELSE << printed[i].line, printed[i].shape, printed[i].target >>]

\* C14: when main of either scanner has returned, its exit status is 1 if
\* some scanned file had an issue and 0 if none had, and the summary is
\* printed with status 1 only and counts the issue lines printed.
C14_ExitStatusAndSummary ==
    pc \in {"exit", "enc_main:exit"} =>
        /\ rc \in {0, 1}
        /\ rc = 1 <=> \E n \in 1..Len(log) : ToReport(n) # << >>
        /\ rc = 1 <=> Len(out) > 0
        /\ err = IF rc = 1 THEN << [found |-> Len(out)] >> ELSE << >>

\* main of the Encoding Scanner has returned 1 after two files with issues,
\* and its summary counts the three issue lines of both.
C14_Witness ==
    /\ pc = "enc_main:exit"
    /\ rc = 1
    /\ Len(log) = 2
    /\ Len(ToReport(1)) = 2
    /\ Len(ToReport(2)) = 1
    /\ Len(out) = 3
    /\ err = << [found |-> 3] >>

\* C15: a file that could not be read is skipped and nothing else is:
\* whenever main of either scanner is between two files or has returned,
\* nothing was printed or counted for a file whose read failed, and for
\* every other markdown file the walk has yielded, before or after a
\* failure, its issues were printed, in order, and counted.
C15_ReadFailureSkipsOnlyThatFile ==
    pc \in {"main:walk", "exit", "enc_main:walk", "enc_main:exit"} =>
        /\ Len(log) = visited
        /\ \A n \in 1..Len(log) : Reported(n) = ToReport(n)
        /\ Len(out) = IF LinkScannerRuns THEN issues ELSE total
        /\ \A i \in 1..Len(out) : out[i].path \in 1..Len(log)

\* main of the Link Scanner has returned after a walk whose first file
\* could not be read and whose second file had issues, which were printed.
C15_Witness ==
    /\ pc = "exit"
    /\ Len(log) = 2
    /\ log[1].read = "failed"
    /\ log[2].read = "ok"
    /\ ToReport(2) # << >>
    /\ Reported(2) = ToReport(2)
    /\ rc = 1

\* The prefixes C16 names.
PrefixesOfC16 ==
    { << "#" >>,
      << "h", "t", "t", "p", ":", "/", "/" >>,
      << "h", "t", "t", "p", "s", ":", "/", "/" >>,
      << "m", "a", "i", "l", "t", "o", ":" >>,
      << "d", "a", "t", "a", ":" >> }

\* The target begins with none of the prefixes and, without its query or
\* fragment and percent-decoded, ends with ".md" in any letter case.
StatedCandidate(target, prefixes) ==
    /\ ~ \E p \in prefixes : StartsWith(target, p)
    /\ EndsWith(Lower(TargetCore(target)), DotMd)

\* The display text (a) is the final path segment of the target in any
\* letter case, or (b) holds "/" or "\" and no whitespace, or (c) trimmed,
\* ends with ".md" in any letter case.
StatedProblematic(text, target) ==
    \/ Lower(text) = Lower(Basename(TargetCore(target)))
    \/ PathLike(text)
    \/ EndsWith(Lower(Strip(text)), DotMd)

\* Every link the scanner extracts from a prose line is a candidate exactly
\* when StatedCandidate holds of its target, and is among the issues
\* exactly when it is a candidate and StatedProblematic holds of its
\* trimmed display text.
LinksJudgedAsStated(prefixes) ==
    \A k \in 1..Len(kind) :
        kind[k] = "prose" =>
            LET ms == LinkFindIter(remove_inline_code(lines[k]), 1)
            IN  \A n \in 1..Len(ms) :
                    LET text == Strip(ms[n].text)
                        target == ms[n].target
                        flagged == \E i \in IssuesOn(k) :
                                       /\ file_issues[i].col = ms[n].start
                                       /\ file_issues[i].text = text
                                       /\ file_issues[i].target = target
                    IN  /\ should_check_target(target)
                            <=> StatedCandidate(target, prefixes)
                        /\ flagged <=> /\ StatedCandidate(target, prefixes)
                                       /\ StatedProblematic(text, target)

\* C16 as stated: a link on a prose line is a candidate exactly when its
\* target begins with none of "#", "http://", "https://", "mailto:",
\* "data:" and ends with ".md" once query, fragment and encoding are
\* removed, and a candidate is flagged exactly when (a), (b) or (c) holds
\* of its display text.
C16_CandidateAndFlagRule == LinksJudgedAsStated(PrefixesOfC16)

\* C16 amended: the same with "tel:" among the prefixes.
C16_CandidateAndFlagRuleWithTel == LinksJudgedAsStated(ExemptFromLinkScan)

\* C16 witness: the line of queries and encodings and the line of schemes
\* have been scanned as prose; the file-name text on the encoded target
\* and the backslash text on the mixed-case target are among the issues,
\* the link whose query alone ends with .md and the tel: link are not.
C16_Witness ==
    /\ pc = "returned"
    /\ \E j, k \in 1..Len(kind) :
        /\ kind[j] = "prose" /\ lines[j] = L_query
        /\ kind[k] = "prose" /\ lines[k] = L_schemes
        /\ Cardinality(IssuesOn(j)) = 2
        /\ \E i \in IssuesOn(j) : file_issues[i].text = << "A", ".", "M", "D" >>
        /\ \E i \in IssuesOn(j) : file_issues[i].text = << "d", "\\", "x" >>
        /\ IssuesOn(k) = {}

\* C18: in every state of a scan, in_code_block holds exactly when
\* code_fence_pattern is not None, and a pattern that is not None is the
\* run of backticks, three or more, that starts the line that opened the
\* current block.
C18_FenceStateConsistent ==
    /\ in_code_block <=> code_fence_pattern # None
    /\ code_fence_pattern # None =>
        /\ Len(code_fence_pattern) >= 3
        /\ \A i \in 1..Len(code_fence_pattern) : code_fence_pattern[i] = BT
        /\ LET opened == Max({k \in 1..Len(kind) : kind[k] = "open"})
           IN  code_fence_pattern =
                   Backticks(BacktickCount(LStrip(lines[opened])))

\* C18 witness: a three-backtick block was opened and closed, the pattern
\* None in between, and the scan is now inside a block that four backticks
\* opened.
C18_Witness ==
    /\ Scanning
    /\ in_code_block
    /\ code_fence_pattern = Backticks(4)
    /\ \E j, k \in 1..Len(kind) :
        /\ j < k
        /\ kind[j] = "open" /\ lines[j] = F_three
        /\ kind[k] = "close"
        /\ kind[Len(kind)] \in {"open", "inside"}

====
